---------------------------- MODULE Spec2Model ----------------------------
(***************************************************************************)
(* dyn-cache: one Namespace<Scope, Input, Output> (namespace.rs) with its  *)
(* KeyMiss/Hashed double-lookup protocol and its Gc implementation, over   *)
(* the CacheCell and DepNode/Dependent types it uses.                      *)
(* moxie: the tree of Scopes that compose_child builds and the witnesses   *)
(* installed in them (compose.rs).                                         *)
(***************************************************************************)
EXTENDS Integers, FiniteSets, Sequences, TLC

(* ------------------------------ bounds -------------------------------- *)
MaxNodes == 2      \* DepNodes allocated at the same time
MaxMisses == 2     \* KeyMiss values held by callers at the same time
GcNodes == 2       \* the same two limits where the passes are observed
GcMisses == 1
MaxScopes == 3     \* InnerScopes allocated, the root among them

Scopes == {"a", "b"}
Inputs == {1, 2}
Outputs == {"one", "ONE"}
GcOutputs == {"one"}

(* Option<DepNode>::None and Dependent { inner: None } *)
NoNode == 0
DepRoot == 0
(* a Dependent whose node has been dropped: the weak handle upgrades to nothing *)
Dangling == 0 - 1

Min(S) == CHOOSE x \in S : \A y \in S : x <= y

VARIABLES
    debugAssertions,  \* build configuration: are debug_assert! checks compiled in
    inner,            \* Namespace.inner: Scope -> CacheCell
    nodes,            \* the allocated DepNodes: id -> [has_root, dependents]
    misses,           \* bag of the KeyMiss values returned and not yet stored or dropped
    aborted,          \* a panic has ended the program
    last,             \* observation: the last operation and what it returned
    marked,           \* observation: mark() ran and no get/store ran since
    pass,             \* observation, per scope: where its last hit or store lies in the passes
    keep,             \* observation, per scope: its successful gets of this pass, then what mark and sweep saw
    reads,            \* the &Output references that get has returned and that are still borrowed
    regs,             \* observation, per scope: whose Dependents its cell was given since the last mark
    late,             \* observation, per scope: what the last mark or sweep made of its cell, and its use since
    scopes,           \* the InnerScopes of the composition tree: handle -> its fields
    stack,            \* the compositions in progress, the innermost last
    panicked,         \* an unwrap() of compose.rs has ended the program
    ret               \* observation: the last call of compose.rs that returned a value

prog == <<debugAssertions, inner, nodes, misses, aborted>>
tree == <<scopes, stack, panicked, ret>>
gcobs == <<marked, pass, keep, reads, regs, late, tree>>
vars == <<debugAssertions, inner, nodes, misses, aborted, last, marked, pass, keep, reads, regs, late,
          scopes, stack, panicked, ret>>

(* ------------------------- DepNode / Dependent ------------------------ *)
(* DepNode::new(): parentless *)
NewNode == [has_root |-> FALSE, dependents |-> {}]

(* DepNode::root(dependent) *)
root(nd, n, dependent) ==
    IF dependent = DepRoot THEN [nd EXCEPT ![n].has_root = TRUE]
    ELSE IF dependent \in DOMAIN nd THEN [nd EXCEPT ![n].dependents = @ \cup {dependent}]
    ELSE nd

(* DepNode::as_dependent() *)
as_dependent(n) == n

(* the nodes that are reachable: rooted, or needed by a reachable node *)
RECURSIVE Grow(_, _)
Grow(nd, S) ==
    LET T == S \cup {n \in DOMAIN nd : nd[n].dependents \cap S # {}}
    IN IF T = S THEN S ELSE Grow(nd, T)

LiveSet(nd) == Grow(nd, {n \in DOMAIN nd : nd[n].has_root})

(* ------------------------------ bags of misses ------------------------ *)
BagSize(b) == LET RECURSIVE Sum(_)
                  Sum(S) == IF S = {} THEN 0
                            ELSE LET x == CHOOSE x \in S : TRUE IN b[x] + Sum(S \ {x})
              IN Sum(DOMAIN b)

BagAdd(b, x) ==
    [y \in DOMAIN b \cup {x} |-> IF y \in DOMAIN b THEN (IF y = x THEN b[y] + 1 ELSE b[y]) ELSE 1]

BagDel(b, x) ==
    IF b[x] > 1 THEN [b EXCEPT ![x] = @ - 1] ELSE [y \in DOMAIN b \ {x} |-> b[y]]

BagMap(b, f(_)) ==
    LET RECURSIVE Sum(_)
        Sum(S) == IF S = {} THEN 0
                  ELSE LET x == CHOOSE x \in S : TRUE IN b[x] + Sum(S \ {x})
    IN [y \in {f(x) : x \in DOMAIN b} |-> Sum({x \in DOMAIN b : f(x) = y})]

(* dropping DepNodes: every Dependent of them stops upgrading *)
DropNodes(nd, gone) ==
    [m \in DOMAIN nd \ gone |-> [nd[m] EXCEPT !.dependents = @ \ gone]]

DropDependents(ms, gone) ==
    LET f(x) == IF x.dependent \in gone THEN [x EXCEPT !.dependent = Dangling] ELSE x
    IN BagMap(ms, f)

(* ------------------------------ CacheCell ----------------------------- *)
(* CacheCell::new(input, output, dep) *)
CacheCellNew(input, output, dep) ==
    [input |-> input, output |-> output, liveness |-> "Dead", dep |-> dep]

(* CacheCell::get: Ok(&output) on equal input, else Err(own Dependent) *)
CellGet(cell, input) ==
    IF input = cell.input
    THEN [ok |-> TRUE, output |-> cell.output, dependent |-> DepRoot]
    ELSE [ok |-> FALSE, output |-> "none", dependent |-> as_dependent(cell.dep)]

(* CacheCell::store: overwrite input and output, liveness back to the baseline *)
CellStore(cell, input, output) ==
    [cell EXCEPT !.input = input, !.output = output, !.liveness = "Dead"]

(* CacheCell::update_liveness *)
update_liveness(cell, live) ==
    [cell EXCEPT !.liveness = IF cell.dep \in live THEN "Live" ELSE "Dead"]

(* CacheCell::liveness *)
liveness(cell) == cell.liveness

(* CacheCell::mark_dead *)
mark_dead(cell) == [cell EXCEPT !.liveness = "Dead"]

(* ------------------------------ Namespace ----------------------------- *)
(* the BuildHasher: every scope of the model lands in the same bucket *)
Hash(key) == 7

(* Namespace::hashed; hashes counts the runs of the hasher over this key, before + this one *)
hashed(key, before) == [ok |-> TRUE, key |-> key, hash |-> Hash(key), hashes |-> before + 1]

(* Namespace::entry / entry_mut: probe by hash, then by equality *)
entry_hash(map, h) == {q \in DOMAIN map : Hash(q) = h.hash}

entry(map, h) == {q \in DOMAIN map : Hash(q) = h.hash /\ q = h.key}

(* KeyMiss::hashed *)
KeyMissHashed(h, node, dependent) ==
    [inner |-> h, dependent |-> dependent, node |-> node]

(* KeyMiss::just_key *)
KeyMissJustKey(k, n) ==
    [inner |-> [ok |-> FALSE, key |-> k, hash |-> 0, hashes |-> 0],
     dependent |-> as_dependent(n), node |-> n]

(* what get(key, input, _) returns on the map: the output, or the kind of miss *)
Lookup(map, key, input) ==
    LET e == entry(map, hashed(key, 0))
    IN IF e = {} THEN [res |-> "absent", output |-> "none"]
       ELSE LET r == CellGet(map[CHOOSE q \in e : TRUE], input)
            IN IF r.ok THEN [res |-> "hit", output |-> r.output]
               ELSE [res |-> "stale", output |-> "none"]

(* the Dependents a caller can pass: the top-level one, one of a dropped node, or of a node *)
TopDependents == {DepRoot}
Dependents == {DepRoot, Dangling} \cup DOMAIN nodes

(* the model's limits: room for one more KeyMiss, and for the node it may own *)
Room(maxNodes, maxMisses) ==
    /\ BagSize(misses) < maxMisses
    /\ Cardinality(DOMAIN nodes) < maxNodes

(* the identity of the next allocation *)
FreeNode == Min((1..(Cardinality(DOMAIN nodes) + 1)) \ DOMAIN nodes)

Extend(f, k, v) == [x \in DOMAIN f \cup {k} |-> IF x = k THEN v ELSE f[x]]

(* the hit arm of get: the cell is handed the caller's dependent *)
get_hit_unregistered(nd, cell, dependent) == nd

get_hit(nd, cell, dependent) == root(nd, cell.dep, dependent)

(* the stale arm of get: the cell's node is left as it is *)
get_stale_rooted(nd, cell, dependent) == root(nd, cell.dep, dependent)

get_stale(nd, cell, dependent) == nd

(* the KeyMiss of the stale arm: no node, and the Dependent the cell answered with *)
stale_miss_caller(h, d, dependent) == KeyMissHashed(h, NoNode, dependent)

stale_miss(h, d, dependent) == KeyMissHashed(h, NoNode, d)

(* the absent arm of get: a new DepNode, rooted under the caller's dependent *)
fresh_node_unrooted(nd, node, dependent) == Extend(nd, node, NewNode)

fresh_node(nd, node, dependent) == root(Extend(nd, node, NewNode), node, dependent)

(* Namespace::get *)
get(key, input, dependent) ==
    /\ ~aborted
    /\ LET h == hashed(key, 0)
           e == entry(inner, h)
       IN IF e # {}
          THEN LET q == CHOOSE q \in e : TRUE
                   cell == inner[q]
                   r == CellGet(cell, input)
               IN IF r.ok
                  THEN /\ nodes' = get_hit(nodes, cell, dependent)
                       /\ misses' = misses
                  ELSE /\ nodes' = get_stale(nodes, cell, dependent)
                       /\ misses' = BagAdd(misses, stale_miss(h, r.dependent, dependent))
          ELSE /\ LET node == FreeNode
                      new_dep == as_dependent(node)
                  IN /\ nodes' = fresh_node(nodes, node, dependent)
                     /\ misses' = BagAdd(misses, KeyMissHashed(h, node, new_dep))
    /\ UNCHANGED <<debugAssertions, inner, aborted>>

(* KeyMiss::just_key *)
just_key(k, dependent) ==
    /\ ~aborted
    /\ LET node == FreeNode
       IN /\ nodes' = root(Extend(nodes, node, NewNode), node, dependent)
          /\ misses' = BagAdd(misses, KeyMissJustKey(k, node))
    /\ UNCHANGED <<debugAssertions, inner, aborted>>

(* the hash store probes with: the one the miss carries, or a new one *)
store_rehash(miss) == hashed(miss.inner.key, miss.inner.hashes)

store_hashed(miss) ==
    IF miss.inner.ok THEN miss.inner ELSE hashed(miss.inner.key, miss.inner.hashes)

(* the occupied arm of store: the cell is updated in place *)
occ_store_output(cell, input, output, dependent) == [cell EXCEPT !.output = output]

occ_store(cell, input, output, dependent) == CellStore(cell, input, output)

(* the vacant arm of store: the new cell goes in under the key *)
vac_insert_lost(map, key, cell) == map

vac_insert(map, key, cell) == Extend(map, key, cell)

(* the occupied arm of store: does the debug_assert! let it through *)
occupied_unchecked(miss) == TRUE

occupied_ok(miss) == ~(debugAssertions /\ miss.node # NoNode)

(* Namespace::store *)
store(miss, input, output) ==
    /\ ~aborted
    /\ miss \in DOMAIN misses
    /\ LET dependent == miss.dependent
           h == store_hashed(miss)
           e == entry(inner, h)
           panic == /\ aborted' = TRUE
                    /\ UNCHANGED <<inner, nodes, misses>>
       IN IF e # {}
          THEN IF ~occupied_ok(miss)
               THEN panic
               ELSE LET q == CHOOSE q \in e : TRUE
                        rooted == root(nodes, inner[q].dep, dependent)
                        gone == {miss.node} \ {NoNode}
                    IN /\ inner' = [inner EXCEPT ![q] = occ_store(@, input, output, dependent)]
                       /\ nodes' = DropNodes(rooted, gone)
                       /\ misses' = DropDependents(BagDel(misses, miss), gone)
                       /\ aborted' = FALSE
          ELSE IF miss.node = NoNode
               THEN panic
               ELSE /\ inner' = vac_insert(inner, h.key, CacheCellNew(input, output, miss.node))
                    /\ misses' = BagDel(misses, miss)
                    /\ aborted' = FALSE
                    /\ UNCHANGED nodes
    /\ UNCHANGED debugAssertions

(* a caller drops a KeyMiss without storing it *)
drop(miss) ==
    /\ ~aborted
    /\ miss \in DOMAIN misses
    /\ LET gone == {miss.node} \ {NoNode}
       IN /\ nodes' = DropNodes(nodes, gone)
          /\ misses' = DropDependents(BagDel(misses, miss), gone)
    /\ UNCHANGED <<debugAssertions, inner, aborted>>

(* values_mut(): the orders in which the cells of the map can be visited, each once *)
Orders(S) == {o \in [1..Cardinality(S) -> S] : \A x \in S : \E i \in DOMAIN o : o[i] = x}

(* what for_each does to the cell it visits: the cell's own update_liveness, which asks
   whether the cell's node is reachable *)
visit_by_record(map, nd, s) ==
    [map EXCEPT ![s] = update_liveness(@,
        {n \in DOMAIN nd : \/ nd[n].has_root
                           \/ \E t \in DOMAIN map : /\ map[t].dep \in nd[n].dependents
                                                    /\ liveness(map[t]) = "Live"})]

visit(map, nd, s) == [map EXCEPT ![s] = update_liveness(@, LiveSet(nd))]

RECURSIVE for_each(_, _, _, _)
for_each(map, nd, order, i) ==
    IF i > Cardinality(DOMAIN map) THEN map
    ELSE for_each(visit(map, nd, order[i]), nd, order, i + 1)

(* Gc::mark: update_liveness on every cell, in the order of the map's iterator; it uses
   up the registrations *)
mark ==
    /\ ~aborted
    /\ LET deps == {inner[s].dep : s \in DOMAIN inner}
       IN /\ \E order \in Orders(DOMAIN inner) : inner' = for_each(inner, nodes, order, 1)
          /\ nodes' = [n \in DOMAIN nodes |-> IF n \in deps THEN NewNode ELSE nodes[n]]
    /\ UNCHANGED <<debugAssertions, misses, aborted>>

(* the closure of retain: the cells that stay *)
retain_all(map) == DOMAIN map

retain_dead(map) == {s \in DOMAIN map : liveness(map[s]) = "Dead"}

retain(map) == {s \in DOMAIN map : liveness(map[s]) = "Live"}

(* the closure of retain: what it does to a cell it visits *)
retain_sticky(cell) == cell

retain_visit(cell) == mark_dead(cell)

(* Gc::sweep *)
sweep ==
    /\ ~aborted
    /\ LET stay == retain(inner)
           gone == {inner[s].dep : s \in DOMAIN inner \ stay}
       IN /\ inner' = [s \in stay |-> retain_visit(inner[s])]
          /\ nodes' = DropNodes(nodes, gone)
          /\ misses' = DropDependents(misses, gone)
    /\ UNCHANGED <<debugAssertions, aborted>>

(* ------------------------- Scope (src/compose.rs) --------------------- *)
ScopeIds == {1, 2}
WitnessTypes == {"W"}
NoWitness == "none"
(* the handle of the InnerScope that Scope::root builds, and its parent: None *)
RootScope == 1
NoScope == 0

(* an InnerScope as Scope::root and Scope::child build it; records holds one
   RecordStorage at most, made by the first with_record_storage *)
NewScope(id, parent) ==
    [id |-> id, parent |-> parent, children |-> <<>>, bind_order |-> <<>>,
     storage |-> FALSE, record |-> FALSE, witnesses |-> {}]

Put(f, k, v) == [x \in DOMAIN f \cup {k} |-> IF x = k THEN v ELSE f[x]]

(* Scope::child: children.entry(id).or_insert_with(..); the closure pushes the id on
   bind_order and builds the InnerScope *)
child_always_new(sc, p, id) ==
    Append([sc EXCEPT ![p].children = Put(@, id, Len(sc) + 1),
                      ![p].bind_order = Append(@, id)],
           NewScope(id, p))

child(sc, p, id) ==
    IF id \in DOMAIN sc[p].children THEN sc
    ELSE Append([sc EXCEPT ![p].children = Put(@, id, Len(sc) + 1),
                           ![p].bind_order = Append(@, id)],
                NewScope(id, p))

(* Scope::record *)
record(sc, h) == [sc EXCEPT ![h].storage = TRUE, ![h].record = TRUE]

(* Scope::install_witness: witnesses.insert(TypeId::of::<W>(), ..) *)
install_witness_lost(sc, h, w) == [sc EXCEPT ![h].storage = TRUE]

install_witness(sc, h, w) ==
    [sc EXCEPT ![h].storage = TRUE, ![h].witnesses = @ \cup {w}]

(* Scope::remove_witness: witnesses.remove(&TypeId::of::<W>()); Some iff it was there *)
remove_witness(sc, h, w) ==
    [sc EXCEPT ![h].storage = TRUE, ![h].witnesses = @ \ {w}]

removed_some(sc, h, w) == w \in sc[h].witnesses

(* Scope::prepare_to_compose: bind_order.clear(), and flush_before_composition on
   every storage of the scope: record = None *)
prepare_to_compose(sc, h) == [sc EXCEPT ![h].bind_order = <<>>, ![h].record = FALSE]

(* bind_order.iter().map(|id| children[id].clone()) *)
bound_children(sc, h) ==
    [i \in 1..Len(sc[h].bind_order) |-> sc[h].children[sc[h].bind_order[i]]]

(* the loop of show_witnesses_after_composition: pop a scope, open its storage to show
   its record, push its bound children *)
RECURSIVE visit_scopes(_, _)
visit_scopes(sc, to_visit) ==
    IF Len(to_visit) = 0 THEN sc
    ELSE LET visiting == to_visit[Len(to_visit)]
             others == SubSeq(to_visit, 1, Len(to_visit) - 1)
         IN visit_scopes([sc EXCEPT ![visiting].storage = TRUE],
                         others \o bound_children(sc, visiting))

show_witnesses_after_composition(sc, start) == visit_scopes(sc, bound_children(sc, start))

(* Scope::finish_composition: for every storage of the scope *)
finish_composition(sc, h) ==
    IF sc[h].storage THEN show_witnesses_after_composition(sc, h) ELSE sc

(* the scope whose component is running: the innermost composition's, or the root *)
Caller == IF Len(stack) = 0 THEN RootScope ELSE stack[Len(stack)].scope

(* observation, per composition in progress: the ids its component has bound through
   child(), in the order of their first binding, and the witness types it has removed *)
AddBound(b, id) == IF \E i \in DOMAIN b : b[i] = id THEN b ELSE Append(b, id)

Bind(st, id) == IF Len(st) = 0 THEN st ELSE [st EXCEPT ![Len(st)].bound = AddBound(@, id)]

Frame(h, w) == [scope |-> h, witness |-> w, bound |-> <<>>, removed |-> {}]

(* observation: the last call that returned a value. For child: did the id have a
   scope already; for compose_child_with_witness: did remove_witness find the witness *)
NoRet == [op |-> "none", some |-> FALSE]

RetChild(existed) == [op |-> "child", some |-> existed]

(* Scope::compose_child up to the call of C::compose: child(id), prepare_to_compose.
   compose_child_with_witness binds the child and installs the witness first. *)
compose_enter(id, w) ==
    LET parent == Caller
        sc1 == child(scopes, parent, id)
        c1 == sc1[parent].children[id]
        sc2 == IF w = NoWitness THEN sc1 ELSE child(install_witness(sc1, c1, w), parent, id)
        c == sc2[parent].children[id]
    IN /\ ~panicked
       /\ Len(sc2) <= MaxScopes
       /\ scopes' = prepare_to_compose(sc2, c)
       /\ stack' = Append(Bind(stack, id), Frame(c, w))
       /\ ret' = RetChild(id \in DOMAIN scopes[parent].children)
       /\ UNCHANGED panicked

compose_child(id) == compose_enter(id, NoWitness)

compose_child_with_witness(id, w) == compose_enter(id, w)

(* what the component being composed does with its Scope *)
component_child(id) ==
    LET sc1 == child(scopes, Caller, id)
    IN /\ ~panicked /\ Len(stack) > 0
       /\ Len(sc1) <= MaxScopes
       /\ scopes' = sc1
       /\ stack' = Bind(stack, id)
       /\ ret' = RetChild(id \in DOMAIN scopes[Caller].children)
       /\ UNCHANGED panicked

component_record ==
    /\ ~panicked /\ Len(stack) > 0
    /\ scopes' = record(scopes, Caller)
    /\ UNCHANGED <<stack, panicked, ret>>

component_install_witness(w) ==
    /\ ~panicked /\ Len(stack) > 0
    /\ scopes' = install_witness(scopes, Caller, w)
    /\ UNCHANGED <<stack, panicked, ret>>

component_remove_witness(w) ==
    /\ ~panicked /\ Len(stack) > 0
    /\ scopes' = remove_witness(scopes, Caller, w)
    /\ stack' = [stack EXCEPT ![Len(stack)].removed = @ \cup {w}]
    /\ UNCHANGED <<panicked, ret>>

(* C::compose has returned: finish_composition, and for compose_child_with_witness
   remove_witness().unwrap() *)
compose_return ==
    /\ ~panicked /\ Len(stack) > 0
    /\ LET top == stack[Len(stack)]
           sc1 == finish_composition(scopes, top.scope)
       IN /\ stack' = SubSeq(stack, 1, Len(stack) - 1)
          /\ IF top.witness = NoWitness
             THEN scopes' = sc1 /\ UNCHANGED <<panicked, ret>>
             ELSE /\ scopes' = remove_witness(sc1, top.scope, top.witness)
                  /\ panicked' = ~removed_some(sc1, top.scope, top.witness)
                  /\ ret' = [op |-> "compose_child_with_witness",
                             some |-> removed_some(sc1, top.scope, top.witness)]

(* ---------------------------- observations ---------------------------- *)
NoMiss == KeyMissJustKey("none", NoNode)

NoOp == [op |-> "other", key |-> "none", res |-> "none", fresh |-> FALSE, hashCount |-> 0,
         miss |-> NoMiss, viaLast |-> FALSE, afterStore |-> FALSE]

(* the KeyMiss an operation has just handed out *)
Returned == CHOOSE m \in DOMAIN misses' : m \notin DOMAIN misses \/ misses'[m] > misses[m]

LogGet(key, input) ==
    LET res == Lookup(inner, key, input).res
    IN last' = [NoOp EXCEPT !.op = "get", !.key = key, !.res = res,
                            !.miss = IF res = "hit" THEN NoMiss ELSE Returned,
                            !.fresh = (res = "absent"),
                            !.afterStore = (last.op = "store" /\ last.key = key /\ last.viaLast)]

LogStore(miss) ==
    last' = [NoOp EXCEPT !.op = IF aborted' THEN "abort" ELSE "store",
                         !.key = miss.inner.key,
                         !.res = IF miss.inner.key \in DOMAIN inner THEN "occupied" ELSE "vacant",
                         !.fresh = (miss.node # NoNode),
                         !.hashCount = store_hashed(miss).hashes,
                         !.viaLast = (last.op = "get" /\ last.miss = miss),
                         !.afterStore = (last.op = "store" /\ last.key = miss.inner.key)]

LogOther == last' = NoOp

PassGet(key, input) ==
    /\ marked' = FALSE
    /\ IF Lookup(inner, key, input).res = "hit"
       THEN pass' = [pass EXCEPT ![key] = "touched"]
       ELSE UNCHANGED pass

PassStore(miss) ==
    IF aborted' THEN UNCHANGED <<marked, pass>>
    ELSE /\ marked' = FALSE
         /\ pass' = [pass EXCEPT ![miss.inner.key] = "touched"]

PassMark ==
    /\ marked' = TRUE
    /\ UNCHANGED pass

PassSweep ==
    /\ marked' = FALSE
    /\ pass' = [s \in Scopes |-> IF ~marked THEN pass[s]
                                 ELSE IF pass[s] = "touched" THEN "quiet"
                                 ELSE IF pass[s] = "quiet" THEN "collected"
                                 ELSE pass[s]]

(* keep[s]: "got" after a successful get of s since the last mark, "gotTop" when one of
   them passed the top-level dependent; "seen"/"seenTop" once mark has run over that;
   "keptTop" when the sweep right after that mark has left a "seenTop" cell in place *)
KeepGet(key, input, dependent) ==
    /\ marked' = FALSE
    /\ IF Lookup(inner, key, input).res = "hit"
       THEN keep' = [keep EXCEPT ![key] = IF dependent = DepRoot \/ @ = "gotTop"
                                         THEN "gotTop" ELSE "got"]
       ELSE keep' = [s \in Scopes |-> IF keep[s] \in {"got", "gotTop"} THEN keep[s] ELSE "no"]

KeepStore ==
    /\ marked' = (marked /\ aborted')
    /\ keep' = IF aborted' THEN keep
               ELSE [s \in Scopes |-> IF keep[s] \in {"got", "gotTop"} THEN keep[s] ELSE "no"]

KeepMark ==
    /\ marked' = TRUE
    /\ keep' = [s \in Scopes |-> IF s \in DOMAIN inner /\ keep[s] = "got" THEN "seen"
                                 ELSE IF s \in DOMAIN inner /\ keep[s] = "gotTop" THEN "seenTop"
                                 ELSE "no"]

KeepSweep ==
    /\ marked' = FALSE
    /\ keep' = [s \in Scopes |-> IF marked /\ s \in DOMAIN inner' /\ keep[s] = "seenTop"
                                 THEN "keptTop" ELSE "no"]

(* regs[s], until the next mark: given, the Dependents that the cell of s has been
   handed (DepRoot, Dangling, or the node a Dependent belongs to), and new, whether the
   cell was created; once mark has run and until the sweep: made, what that mark made
   of the cell *)
NoRegs == [given |-> {}, new |-> FALSE, made |-> {}]

RegBase == IF marked THEN [s \in Scopes |-> NoRegs] ELSE regs

(* the Dependents of the nodes that this step drops stop upgrading *)
RegScrub(r) ==
    [s \in Scopes |->
        [r[s] EXCEPT !.given = {IF d \in DOMAIN nodes \ DOMAIN nodes' THEN Dangling ELSE d : d \in @}]]

RegGet(key, input, dependent) ==
    /\ marked' = FALSE
    /\ regs' = IF Lookup(inner, key, input).res = "hit"
                THEN [RegBase EXCEPT ![key].given = @ \cup {dependent}]
                ELSE RegBase

RegStore(miss) ==
    IF aborted' THEN UNCHANGED <<marked, regs>>
    ELSE /\ marked' = FALSE
         /\ regs' = IF miss.inner.key \in DOMAIN inner
                     THEN RegScrub([RegBase EXCEPT ![miss.inner.key].given = @ \cup {miss.dependent}])
                     ELSE [RegBase EXCEPT ![miss.inner.key] =
                              [given |-> nodes[miss.node].dependents
                                         \cup (IF nodes[miss.node].has_root THEN {DepRoot} ELSE {}),
                               new |-> TRUE, made |-> {}]]

RegDrop ==
    /\ regs' = RegScrub(regs)
    /\ UNCHANGED marked

(* the cells that own one of these nodes and that the mark has just recorded as Live, as Dead *)
MadeLive(ds) == {t \in DOMAIN inner : inner[t].dep \in ds /\ liveness(inner'[t]) = "Live"}
MadeDead(ds) == {t \in DOMAIN inner : inner[t].dep \in ds /\ liveness(inner'[t]) = "Dead"}

RegMark ==
    /\ marked' = TRUE
    /\ regs' = [s \in Scopes |->
                  IF marked \/ s \notin DOMAIN inner THEN NoRegs
                  ELSE [NoRegs EXCEPT !.made =
                          (IF regs[s].new THEN {"new"} ELSE {})
                          \cup (IF DepRoot \in regs[s].given THEN {"top"} ELSE {})
                          \cup (IF MadeLive(regs[s].given) \ {s} # {} THEN {"viaLive"} ELSE {})
                          \cup (IF \A d \in regs[s].given :
                                       d = Dangling \/ MadeDead({d}) # {}
                                 THEN {"allDead"} ELSE {})]]

RegSweep ==
    /\ marked' = FALSE
    /\ regs' = [s \in Scopes |->
                  IF marked \/ s \notin DOMAIN inner' THEN NoRegs ELSE RegScrub(regs)[s]]

(* late[s]: "live" or "dead" as the last mark recorded the cell of s, "deadGot" once a
   cell recorded Dead has had a successful get; "kept" for a cell that the last sweep
   left in place, "keptUsed" once it has had a successful get or a store, as long as
   no mark has run; "evicted" and "gone" for a "deadGot" and a "keptUsed" cell that
   the sweep has removed *)
LateGet(key, input) ==
    /\ marked' = FALSE
    /\ late' = IF Lookup(inner, key, input).res # "hit" THEN late
                ELSE IF late[key] \in {"dead", "deadGot"} THEN [late EXCEPT ![key] = "deadGot"]
                ELSE IF late[key] \in {"kept", "keptUsed"} THEN [late EXCEPT ![key] = "keptUsed"]
                ELSE late

LateStore(miss) ==
    IF aborted' THEN UNCHANGED <<marked, late>>
    ELSE /\ marked' = FALSE
         /\ late' = [late EXCEPT ![miss.inner.key] =
                        IF @ \in {"kept", "keptUsed"} /\ miss.inner.key \in DOMAIN inner
                        THEN "keptUsed" ELSE "no"]

LateMark ==
    /\ marked' = TRUE
    /\ late' = [s \in Scopes |-> IF s \notin DOMAIN inner THEN "no"
                                 ELSE IF liveness(inner'[s]) = "Live" THEN "live" ELSE "dead"]

LateSweep ==
    /\ marked' = FALSE
    /\ late' = [s \in Scopes |-> IF s \in DOMAIN inner' THEN "kept"
                                 ELSE IF late[s] = "deadGot" THEN "evicted"
                                 ELSE IF late[s] = "keptUsed" THEN "gone"
                                 ELSE "no"]

(* --------------------------- specifications --------------------------- *)
InitProg ==
    /\ debugAssertions \in BOOLEAN
    /\ inner = <<>>
    /\ nodes = <<>>
    /\ misses = <<>>
    /\ aborted = FALSE

Init ==
    /\ InitProg
    /\ last = NoOp
    /\ marked = FALSE
    /\ pass = [s \in Scopes |-> "none"]
    /\ keep = [s \in Scopes |-> "no"]
    /\ reads = {}
    /\ regs = [s \in Scopes |-> NoRegs]
    /\ late = [s \in Scopes |-> "no"]
    /\ scopes = <<NewScope(0, NoScope)>>
    /\ stack = <<>>
    /\ panicked = FALSE
    /\ ret = NoRet

(* the operations, with what they return logged *)
Get ==
    \E key \in Scopes, input \in Inputs, dependent \in TopDependents :
        (Lookup(inner, key, input).res # "hit" => Room(MaxNodes, MaxMisses))
        /\ get(key, input, dependent) /\ LogGet(key, input) /\ UNCHANGED gcobs

JustKey ==
    \E k \in Scopes, dependent \in TopDependents :
        Room(MaxNodes, MaxMisses) /\ just_key(k, dependent) /\ LogOther /\ UNCHANGED gcobs

Store ==
    \E miss \in DOMAIN misses, input \in Inputs, output \in Outputs :
        store(miss, input, output) /\ LogStore(miss) /\ UNCHANGED gcobs

Drop == \E miss \in DOMAIN misses : drop(miss) /\ LogOther /\ UNCHANGED gcobs

Mark == mark /\ LogOther /\ UNCHANGED gcobs

Sweep == sweep /\ LogOther /\ UNCHANGED gcobs

Next == Get \/ JustKey \/ Store \/ Drop \/ Mark \/ Sweep

Spec == Init /\ [][Next]_vars

(* the operations, with the passes they fall in observed *)
GcGet ==
    \E key \in Scopes, input \in Inputs, dependent \in Dependents :
        (Lookup(inner, key, input).res # "hit" => Room(GcNodes, GcMisses))
        /\ get(key, input, dependent) /\ PassGet(key, input)
        /\ UNCHANGED <<regs, reads, last, late, tree, keep>>

GcJustKey ==
    \E k \in Scopes, dependent \in Dependents :
        Room(GcNodes, GcMisses) /\ just_key(k, dependent)
        /\ UNCHANGED <<regs, reads, last, late, tree, marked, pass, keep>>

GcStore ==
    \E miss \in DOMAIN misses, input \in Inputs, output \in GcOutputs :
        store(miss, input, output) /\ PassStore(miss) /\ UNCHANGED <<regs, reads, last, late, tree, keep>>

GcDrop ==
    \E miss \in DOMAIN misses :
        drop(miss) /\ UNCHANGED <<regs, reads, last, late, tree, marked, pass, keep>>

GcMark == mark /\ PassMark /\ UNCHANGED <<regs, reads, last, late, tree, keep>>

GcSweep == sweep /\ PassSweep /\ UNCHANGED <<regs, reads, last, late, tree, keep>>

NextGc == GcGet \/ GcJustKey \/ GcStore \/ GcDrop \/ GcMark \/ GcSweep

SpecGc == Init /\ [][NextGc]_vars

(* the operations, with the dependents of the successful gets observed *)
KeepGetOp ==
    \E key \in Scopes, input \in Inputs, dependent \in Dependents :
        (Lookup(inner, key, input).res # "hit" => Room(GcNodes, GcMisses))
        /\ get(key, input, dependent) /\ KeepGet(key, input, dependent)
        /\ UNCHANGED <<regs, reads, last, late, tree, pass>>

KeepJustKey ==
    \E k \in Scopes, dependent \in Dependents :
        Room(GcNodes, GcMisses) /\ just_key(k, dependent)
        /\ UNCHANGED <<regs, reads, last, late, tree, marked, pass, keep>>

KeepStoreOp ==
    \E miss \in DOMAIN misses, input \in Inputs, output \in GcOutputs :
        store(miss, input, output) /\ KeepStore /\ UNCHANGED <<regs, reads, last, late, tree, pass>>

KeepDropOp ==
    \E miss \in DOMAIN misses : drop(miss) /\ UNCHANGED <<regs, reads, last, late, tree, marked, pass, keep>>

KeepMarkOp == mark /\ KeepMark /\ UNCHANGED <<regs, reads, last, late, tree, pass>>

KeepSweepOp == sweep /\ KeepSweep /\ UNCHANGED <<regs, reads, last, late, tree, pass>>

NextKeep == KeepGetOp \/ KeepJustKey \/ KeepStoreOp \/ KeepDropOp \/ KeepMarkOp \/ KeepSweepOp

SpecKeep == Init /\ [][NextKeep]_vars

(* get, store, mark and sweep, and the drop of a miss, with the Dependents given to
   each cell observed *)
ChainGet ==
    \E key \in Scopes, input \in Inputs, dependent \in Dependents :
        (Lookup(inner, key, input).res # "hit" => Room(GcNodes, GcMisses))
        /\ get(key, input, dependent) /\ RegGet(key, input, dependent)
        /\ UNCHANGED <<reads, last, late, tree, pass, keep>>

ChainStore ==
    \E miss \in DOMAIN misses, input \in Inputs, output \in GcOutputs :
        store(miss, input, output) /\ RegStore(miss) /\ UNCHANGED <<reads, last, late, tree, pass, keep>>

ChainDrop ==
    \E miss \in DOMAIN misses :
        drop(miss) /\ RegDrop /\ UNCHANGED <<reads, last, late, tree, pass, keep>>

ChainMark == mark /\ RegMark /\ UNCHANGED <<reads, last, late, tree, pass, keep>>

ChainSweep == sweep /\ RegSweep /\ UNCHANGED <<reads, last, late, tree, pass, keep>>

NextChain == ChainGet \/ ChainStore \/ ChainDrop \/ ChainMark \/ ChainSweep

SpecChain == Init /\ [][NextChain]_vars

(* get, store, mark and sweep, and the drop of a miss, with the lookups that fall
   between a mark and a sweep, or between two sweeps, observed *)
LateGetOp ==
    \E key \in Scopes, input \in Inputs, dependent \in Dependents :
        (Lookup(inner, key, input).res # "hit" => Room(GcNodes, GcMisses))
        /\ get(key, input, dependent) /\ LateGet(key, input)
        /\ UNCHANGED <<regs, reads, last, pass, keep, tree>>

LateStoreOp ==
    \E miss \in DOMAIN misses, input \in Inputs, output \in GcOutputs :
        store(miss, input, output) /\ LateStore(miss)
        /\ UNCHANGED <<regs, reads, last, pass, keep, tree>>

LateDropOp ==
    \E miss \in DOMAIN misses :
        drop(miss) /\ UNCHANGED <<regs, reads, last, marked, pass, keep, late, tree>>

LateMarkOp == mark /\ LateMark /\ UNCHANGED <<regs, reads, last, pass, keep, tree>>

LateSweepOp == sweep /\ LateSweep /\ UNCHANGED <<regs, reads, last, pass, keep, tree>>

NextLate == LateGetOp \/ LateStoreOp \/ LateDropOp \/ LateMarkOp \/ LateSweepOp

SpecLate == Init /\ [][NextLate]_vars

(* &mut self: store, mark and sweep need the Namespace unborrowed *)
exclusive_unchecked(rs) == TRUE

exclusive(rs) == rs = {}

(* the operations, with the shared borrows of the returned outputs tracked *)
ReadGet ==
    \E key \in Scopes, input \in Inputs, dependent \in TopDependents :
        LET r == Lookup(inner, key, input)
        IN /\ (r.res # "hit" => Room(GcNodes, GcMisses))
           /\ get(key, input, dependent)
           /\ reads' = IF r.res = "hit" THEN reads \cup {[key |-> key, output |-> r.output]}
                        ELSE reads
           /\ UNCHANGED <<regs, last, late, tree, marked, pass, keep>>

ReadRelease ==
    \E r \in reads :
        /\ reads' = reads \ {r}
        /\ UNCHANGED <<prog, regs, last, late, tree, marked, pass, keep>>

ReadJustKey ==
    \E k \in Scopes, dependent \in TopDependents :
        Room(GcNodes, GcMisses) /\ just_key(k, dependent)
        /\ UNCHANGED <<regs, reads, last, late, tree, marked, pass, keep>>

ReadStore ==
    \E miss \in DOMAIN misses, input \in Inputs, output \in Outputs :
        exclusive(reads) /\ store(miss, input, output)
        /\ UNCHANGED <<regs, reads, last, late, tree, marked, pass, keep>>

ReadDrop ==
    \E miss \in DOMAIN misses : drop(miss) /\ UNCHANGED <<regs, reads, last, late, tree, marked, pass, keep>>

ReadMark == exclusive(reads) /\ mark /\ UNCHANGED <<regs, reads, last, late, tree, marked, pass, keep>>

ReadSweep == exclusive(reads) /\ sweep /\ UNCHANGED <<regs, reads, last, late, tree, marked, pass, keep>>

NextRead ==
    ReadGet \/ ReadRelease \/ ReadJustKey \/ ReadStore \/ ReadDrop \/ ReadMark \/ ReadSweep

SpecRead == Init /\ [][NextRead]_vars

(* the composition of a tree of scopes *)
cache == <<prog, last, marked, pass, keep, reads, regs, late>>

ComposeChild == \E id \in ScopeIds : compose_child(id) /\ UNCHANGED cache

ComposeChildWithWitness ==
    \E id \in ScopeIds, w \in WitnessTypes :
        compose_child_with_witness(id, w) /\ UNCHANGED cache

ComponentChild == \E id \in ScopeIds : component_child(id) /\ UNCHANGED cache

ComponentRecord == component_record /\ UNCHANGED cache

ComponentInstallWitness ==
    \E w \in WitnessTypes : component_install_witness(w) /\ UNCHANGED cache

ComponentRemoveWitness ==
    \E w \in WitnessTypes : component_remove_witness(w) /\ UNCHANGED cache

ComposeReturn == compose_return /\ UNCHANGED cache

NextCompose ==
    \/ ComposeChild \/ ComposeChildWithWitness \/ ComposeReturn
    \/ ComponentChild \/ ComponentRecord
    \/ ComponentInstallWitness \/ ComponentRemoveWitness

(* compose.rs has no debug_assert!: one build configuration is enough *)
InitCompose == Init /\ debugAssertions = TRUE

SpecCompose == InitCompose /\ [][NextCompose]_vars

TypeOK ==
    /\ DOMAIN inner \subseteq Scopes
    /\ \A s \in DOMAIN inner : inner[s].dep \in DOMAIN nodes
    /\ \A m \in DOMAIN misses : m.node # NoNode => m.node \in DOMAIN nodes

(* ------------------------------- claims ------------------------------- *)
Hit(output) == [res |-> "hit", output |-> output]

(* C1: round trip. When get has returned a KeyMiss and store is called next with that
   miss, an input and an output, the store completes and a following get of that
   scope with that input returns that output. *)
C1_RoundTrip ==
    [][\A miss \in DOMAIN misses, input \in Inputs, output \in Outputs :
        (last.op = "get" /\ last.miss = miss /\ store(miss, input, output))
        => (~aborted' /\ Lookup(inner', miss.inner.key, input) = Hit(output))]_vars

C1_Witness == last.op = "get" /\ last.res = "hit" /\ last.afterStore

(* C2: staleness. A get on a stored scope with another input returns a miss and
   changes no cell; after the store of (i2, o2) through that miss, a get with i2
   returns o2 and a get with any other input is a miss. *)
C2_Staleness ==
    [][/\ \A key \in DOMAIN inner : \A i2 \in Inputs \ {inner[key].input} :
            Lookup(inner, key, i2).res = "stale"
       /\ (last'.op = "get" /\ last'.res = "stale")
            => (inner' = inner /\ BagSize(misses') = BagSize(misses) + 1)
       /\ \A miss \in DOMAIN misses, i2 \in Inputs, o2 \in Outputs :
            (last.op = "get" /\ last.res = "stale" /\ last.miss = miss /\ store(miss, i2, o2))
            => /\ ~aborted'
               /\ Lookup(inner', miss.inner.key, i2) = Hit(o2)
               /\ \A i1 \in Inputs \ {i2} : Lookup(inner', miss.inner.key, i1).res = "stale"]_vars

C2_Witness ==
    last.op = "store" /\ last.res = "occupied" /\ last.viaLast /\ ~last.fresh

(* C3 as stated: once a scope has been stored, one back-to-back mark+sweep pair with
   no get or store on it in between leaves no cell for it. *)
C3_OnePairCollects == \A s \in Scopes : pass[s] = "quiet" => s \notin DOMAIN inner

(* C3 amended: once a scope has been stored, two back-to-back mark+sweep pairs with no
   successful get and no store on it in between leave no cell for it: every get on it
   is a miss and it is no key of the namespace. *)
C3_TwoPairsCollect ==
    \A s \in Scopes :
        pass[s] = "collected"
        => (s \notin DOMAIN inner /\ \A i \in Inputs : Lookup(inner, s, i).res = "absent")

C3_Witness == pass["b"] = "collected" /\ "b" \notin DOMAIN inner /\ ~marked

(* C4 as stated: a cell that received a successful get, with whatever dependent,
   before the mark of a back-to-back mark+sweep pair is still there after the sweep. *)
C4_AnyGetRetains ==
    [][\A s \in Scopes :
        (KeepSweepOp /\ marked /\ keep[s] \in {"seen", "seenTop"}) => s \in DOMAIN inner']_vars

(* C4 amended: a cell that received a successful get with the top-level dependent
   before the mark of a back-to-back mark+sweep pair is still there after the sweep,
   with its input and output, pass after pass. *)
C4_TopGetRetains ==
    [][\A s \in Scopes :
        (KeepSweepOp /\ marked /\ keep[s] = "seenTop")
        => /\ s \in DOMAIN inner'
           /\ inner'[s].input = inner[s].input
           /\ inner'[s].output = inner[s].output
           /\ Lookup(inner', s, inner[s].input) = Hit(inner[s].output)]_vars

C4_Witness == \E s \in DOMAIN inner : keep[s] = "keptTop"

(* C5: liveness is not sticky. A cell that has survived a back-to-back mark+sweep pair
   and has received no successful get and no store since is removed by the next sweep. *)
C5_NotSticky ==
    [][\A s \in DOMAIN inner : (GcSweep /\ pass[s] = "quiet") => s \notin DOMAIN inner']_vars

C5_Witness ==
    \E s \in Scopes, t \in DOMAIN inner : pass[s] = "collected" /\ s \notin DOMAIN inner /\ t # s

(* C6: multi-scope independence. A store on one scope leaves every other scope's cell
   as it was (input, output, liveness, node), and every get on another scope returns
   after the store what it returned before. *)
C6_Independence ==
    [][last'.op = "store"
        => \A b \in DOMAIN inner \ {last'.key} :
              /\ b \in DOMAIN inner'
              /\ inner'[b] = inner[b]
              /\ \A i \in Inputs : Lookup(inner', b, i) = Lookup(inner, b, i)]_vars

C6_Witness ==
    /\ last.op = "store" /\ last.res = "occupied"
    /\ \E b \in DOMAIN inner : b # last.key

(* C7: identity stability. No operation replaces the DepNode of a cell that it leaves
   in the namespace, and a miss returned for a present scope owns no node and carries
   the Dependent of the cell's node. *)
C7_IdentityStable ==
    [][/\ \A s \in DOMAIN inner \cap DOMAIN inner' : inner'[s].dep = inner[s].dep
       /\ (last'.op = "get" /\ last'.key \in DOMAIN inner)
            => (last'.res = "hit"
                \/ (last'.miss.node = NoNode
                    /\ last'.miss.dependent = as_dependent(inner[last'.key].dep)))]_vars

C7_Witness ==
    /\ last.op = "store" /\ last.res = "occupied"
    /\ \E m \in DOMAIN misses : m.node = NoNode /\ m.dependent = as_dependent(inner[last.key].dep)

(* C8: hash reuse. When store runs, the hasher has run exactly once over the key of
   the miss since the miss was asked for: in get for a hashed miss, in store for a
   miss made from a bare key. *)
C8_HashOnce == last.op \in {"store", "abort"} => last.hashCount = 1

C8_Witness == last.op = "store" /\ last.res = "occupied" /\ ~last.fresh /\ last.hashCount = 1

(* C9: a store of a KeyMiss that owns a fresh DepNode into an occupied scope aborts and
   leaves the cell and the nodes as they were. *)
C9_FreshOccupiedAborts ==
    [][(last'.op \in {"store", "abort"} /\ last'.fresh /\ last'.res = "occupied")
        => (aborted' /\ inner' = inner /\ nodes' = nodes)]_vars

(* a Dependent of the cell's node is held: by a KeyMiss, or by a node that lists it *)
Held(s) ==
    \/ \E m \in DOMAIN misses : m.dependent = as_dependent(inner[s].dep)
    \/ \E n \in DOMAIN nodes : inner[s].dep \in nodes[n].dependents

(* C10: collection follows activity, not references. A cell that has survived a
   back-to-back mark+sweep pair and has received no successful get and no store since
   is removed by the next sweep although Dependents of its node are held, and the
   Dependents that KeyMisses hold of it dangle afterwards. *)
C10_HandlesDoNotRetain ==
    [][\A s \in DOMAIN inner :
        (GcSweep /\ pass[s] = "quiet" /\ Held(s))
        => /\ s \notin DOMAIN inner'
           /\ inner[s].dep \notin DOMAIN nodes'
           /\ \A m \in DOMAIN misses' : m.dependent # as_dependent(inner[s].dep)]_vars

C10_Witness ==
    \E s \in Scopes :
        /\ pass[s] = "collected" /\ s \notin DOMAIN inner
        /\ \E m \in DOMAIN misses : m.inner.key = s /\ m.node = NoNode /\ m.dependent = Dangling

(* the nodes that a set of nodes is needed by, followed along the dependents edges *)
RECURSIVE NeededBy(_, _)
NeededBy(nd, S) ==
    LET T == S \cup UNION {nd[m].dependents : m \in S \cap DOMAIN nd}
    IN IF T = S THEN S ELSE NeededBy(nd, T)

(* C11: the dependency graph is acyclic in every reachable state: no DepNode is
   needed by itself, directly or through other nodes. *)
C11_Acyclic == \A n \in DOMAIN nodes : n \notin NeededBy(nodes, nodes[n].dependents)

(* C12: a get that misses and is not followed by store changes nothing stored. A
   step that changes a cell or the set of scopes is no missing get and no drop of a
   miss, so the get leaves every cell as it was, dropping the miss does too, and a
   present scope that has survived a mark+sweep pair and since then has only missed,
   the miss still held, is removed by the next sweep. *)
C12_MissChangesNothing ==
    [][/\ inner' # inner
            => /\ \A key \in Scopes, input \in Inputs, dependent \in Dependents :
                     ~(Lookup(inner, key, input).res # "hit" /\ get(key, input, dependent))
               /\ \A miss \in DOMAIN misses : ~drop(miss)
       /\ \A s \in DOMAIN inner :
            (/\ pass[s] = "quiet"
             /\ \E m \in DOMAIN misses : m.inner.key = s /\ m.node = NoNode
             /\ GcSweep)
            => s \notin DOMAIN inner']_vars

C12_Witness ==
    \E s \in DOMAIN inner, m \in DOMAIN misses :
        /\ pass[s] = "quiet" /\ marked
        /\ m.inner.key = s /\ m.node = NoNode /\ m.dependent = as_dependent(inner[s].dep)
        /\ inner[s].liveness = "Dead"

(* C13: concurrent readers. While a reference returned by get is outstanding no cell
   changes (no store, mark or sweep has run) and the reference still shows the output
   of its cell; a get changes the result of no get, whatever other gets run around it. *)
C13_ConcurrentReaders ==
    [][/\ reads # {} => inner' = inner
       /\ \A r \in reads' : r.key \in DOMAIN inner' /\ inner'[r.key].output = r.output
       /\ \A key \in Scopes, input \in Inputs, dependent \in TopDependents :
            get(key, input, dependent)
            => \A s \in Scopes, i \in Inputs : Lookup(inner', s, i) = Lookup(inner, s, i)]_vars

C13_Witness ==
    /\ Cardinality(reads) = 2
    /\ \E r1 \in reads, r2 \in reads : r1.key # r2.key /\ inner[r1.key].output = r1.output

(* C14: a get on a scope with no cell returns a KeyMiss that owns a DepNode that did
   not exist before, rooted under the dependent the caller passed, and whose Dependent
   is the one of that node and not the caller's; the get inserts no cell. *)
C14_AbsentGet ==
    [][\A key \in Scopes \ DOMAIN inner, input \in Inputs, dependent \in Dependents :
        (misses' # misses /\ get(key, input, dependent))
        => LET m == Returned
           IN /\ m.inner.key = key /\ m.inner.ok
              /\ m.node # NoNode /\ m.node \notin DOMAIN nodes /\ m.node \in DOMAIN nodes'
              /\ m.dependent = as_dependent(m.node) /\ m.dependent # dependent
              /\ nodes'[m.node].has_root = (dependent = DepRoot)
              /\ nodes'[m.node].dependents = {dependent} \cap DOMAIN nodes
              /\ inner' = inner]_vars

C14_Witness ==
    \E m \in DOMAIN misses :
        /\ m.inner.ok /\ m.inner.key \notin DOMAIN inner
        /\ m.node \in DOMAIN nodes /\ m.dependent = as_dependent(m.node)
        /\ \E s \in DOMAIN inner : nodes[m.node].dependents = {inner[s].dep}

(* C15: a get on a present scope with another input than the stored one returns a
   KeyMiss without a node and with the Dependent of the cell's own node; it allocates
   no DepNode and registers nothing, so the mark of a pass in which a surviving cell
   has only had such lookups records it Dead. *)
C15_StaleGet ==
    [][/\ \A key \in DOMAIN inner, dependent \in Dependents :
            \A input \in Inputs \ {inner[key].input} :
                (misses' # misses /\ get(key, input, dependent))
                => LET m == Returned
                   IN /\ m.inner.key = key
                      /\ m.node = NoNode
                      /\ m.dependent = as_dependent(inner[key].dep)
                      /\ nodes' = nodes
                      /\ inner' = inner
       /\ \A s \in DOMAIN inner :
            (pass[s] = "quiet" /\ GcMark) => liveness(inner'[s]) = "Dead"]_vars

C15_Witness ==
    \E s \in DOMAIN inner, m \in DOMAIN misses :
        /\ pass[s] = "quiet" /\ ~marked
        /\ m.inner.key = s /\ m.node = NoNode /\ m.dependent = as_dependent(inner[s].dep)
        /\ nodes[inner[s].dep] = NewNode

(* two misses that get returned for one scope are in flight: the one about to be
   stored first, the scope as both gets found it (absent for two fresh misses, present
   for two stale ones) *)
FirstOfTwo(miss) ==
    /\ miss.inner.ok
    /\ (miss.node = NoNode) = (miss.inner.key \in DOMAIN inner)
    /\ \E m2 \in DOMAIN misses :
          /\ m2 # miss \/ misses[miss] > 1
          /\ m2.inner.ok /\ m2.inner.key = miss.inner.key
          /\ (m2.node = NoNode) = (miss.node = NoNode)

(* the other one, right after the store of the first *)
SecondOfTwo(miss) ==
    /\ miss.inner.ok
    /\ last.op = "store" /\ last.key = miss.inner.key
    /\ last.fresh = (miss.node # NoNode)
    /\ last.res = IF last.fresh THEN "vacant" ELSE "occupied"

Committed(miss, input, output) ==
    /\ ~aborted'
    /\ miss.inner.key \in DOMAIN inner'
    /\ inner'[miss.inner.key].input = input
    /\ inner'[miss.inner.key].output = output

(* C16 as stated: of two misses in flight on one scope, absent or stale, both stores
   complete; the second overwrites the input and output the first committed. *)
C16_BothStoresComplete ==
    [][\A miss \in DOMAIN misses :
        (FirstOfTwo(miss) \/ SecondOfTwo(miss))
        => \A input \in Inputs, output \in Outputs :
              store(miss, input, output) => Committed(miss, input, output)]_vars

(* C16 amended: of two misses in flight on one scope the first store commits. The
   second commits, overwriting input and output, when the misses were stale ones or
   when debug assertions are off (its own node is then dropped); with debug assertions
   on, the second of two fresh misses aborts and leaves the cell as the first left it. *)
C16_SecondStoreByKind ==
    [][\A miss \in DOMAIN misses :
        /\ FirstOfTwo(miss)
            => \A input \in Inputs, output \in Outputs :
                  store(miss, input, output) => Committed(miss, input, output)
        /\ SecondOfTwo(miss)
            => \A input \in Inputs, output \in Outputs :
                  store(miss, input, output)
                  => IF miss.node = NoNode \/ ~debugAssertions
                     THEN /\ Committed(miss, input, output)
                          /\ inner'[miss.inner.key].dep = inner[miss.inner.key].dep
                          /\ miss.node \notin DOMAIN nodes'
                     ELSE aborted' /\ inner' = inner]_vars

C16_Witness ==
    /\ last.op = "store" /\ last.afterStore /\ last.res = "occupied" /\ ~last.fresh
    /\ misses = <<>> /\ ~aborted

(* C17: whenever store finds no cell for the scope of the miss, the miss owns a
   DepNode, so the vacant arm never fails, whatever ran between the creation of the
   miss and its store. *)
C17_VacantHasNode == ~(last.op = "abort" /\ last.res = "vacant")

(* C18: after every sweep the namespace holds exactly the cells that were Live right
   before it, unchanged but for their liveness, which is Dead for every one of them. *)
C18_SweepKeepsLive ==
    [][GcSweep
        => /\ DOMAIN inner' = {s \in DOMAIN inner : liveness(inner[s]) = "Live"}
           /\ \A s \in DOMAIN inner' :
                 /\ liveness(inner'[s]) = "Dead"
                 /\ inner'[s].input = inner[s].input
                 /\ inner'[s].output = inner[s].output
                 /\ inner'[s].dep = inner[s].dep]_vars

C18_Witness ==
    \E s \in DOMAIN inner, t \in Scopes \ DOMAIN inner :
        /\ pass[s] = "quiet" /\ pass[t] = "quiet" /\ ~marked
        /\ liveness(inner[s]) = "Dead"
        /\ misses = <<>>

(* C19 as stated: a cell created by store since the last mark, from a miss whose node
   was rooted under whatever dependent its caller passed, is recorded Live by the next
   mark and is in the namespace after the sweep that follows that mark. *)
C19_CreatedSurvives ==
    [][\A s \in Scopes :
        /\ (~marked /\ s \in DOMAIN inner /\ regs[s].new /\ ChainMark)
             => liveness(inner'[s]) = "Live"
        /\ (marked /\ "new" \in regs[s].made /\ ChainSweep) => s \in DOMAIN inner']_vars

(* C19 amended: a cell created by store since the last mark, from a miss whose node
   was rooted under the top-level dependent, is recorded Live by the next mark and is
   in the namespace, with its input and output, after the sweep that follows it. *)
C19_CreatedUnderTopSurvives ==
    [][\A s \in Scopes :
        /\ (~marked /\ s \in DOMAIN inner /\ regs[s].new /\ DepRoot \in regs[s].given
                /\ ChainMark)
             => liveness(inner'[s]) = "Live"
        /\ (marked /\ {"new", "top"} \subseteq regs[s].made /\ ChainSweep)
             => /\ s \in DOMAIN inner'
                /\ inner'[s].input = inner[s].input
                /\ inner'[s].output = inner[s].output]_vars

C19_Witness ==
    \E s \in DOMAIN inner :
        /\ marked /\ {"new", "top"} \subseteq regs[s].made /\ liveness(inner[s]) = "Live"
        /\ nodes[inner[s].dep] = NewNode

(* C20: liveness chains through forwarded Dependents. When the cell of s has been
   given, since the last mark, the Dependent of another cell that the next mark records
   Live, that mark records s Live and the sweep after it keeps s; when every Dependent
   it has been given is one of a dropped node or of a cell that this mark records Dead,
   the mark records s Dead and the sweep after it removes s. *)
C20_TransitiveLiveness ==
    [][\A s \in Scopes :
        /\ (~marked /\ s \in DOMAIN inner /\ ChainMark /\ MadeLive(regs[s].given) \ {s} # {})
             => liveness(inner'[s]) = "Live"
        /\ (marked /\ "viaLive" \in regs[s].made /\ ChainSweep) => s \in DOMAIN inner'
        /\ (~marked /\ s \in DOMAIN inner /\ ChainMark
                /\ \A d \in regs[s].given : d = Dangling \/ MadeDead({d}) # {})
             => liveness(inner'[s]) = "Dead"
        /\ (marked /\ "allDead" \in regs[s].made /\ ChainSweep) => s \notin DOMAIN inner']_vars

C20_Witness ==
    \E s \in DOMAIN inner, t \in DOMAIN inner :
        /\ s # t /\ marked
        /\ "viaLive" \in regs[s].made /\ "top" \notin regs[s].made
        /\ liveness(inner[s]) = "Live" /\ liveness(inner[t]) = "Live"

(* C21: a lookup between a mark and the sweep that follows it does not save a cell. A
   cell that the mark recorded Dead and that has had a successful get since is removed
   by the sweep; when the sweep follows the mark with no lookup in between, every cell
   that the mark recorded Live is still there after it. *)
C21_LateLookup ==
    [][\A s \in Scopes :
        /\ (late[s] = "deadGot" /\ LateSweepOp) => s \notin DOMAIN inner'
        /\ (marked /\ late[s] = "live" /\ LateSweepOp)
             => s \in DOMAIN inner' /\ inner'[s].output = inner[s].output]_vars

C21_Witness ==
    \E s \in Scopes, t \in DOMAIN inner :
        late[s] = "evicted" /\ s \notin DOMAIN inner /\ late[t] = "kept"

(* C22: the Live/Dead assignment of a mark, and so the set of cells that survive the
   sweep after it, does not depend on the order in which the mark visits the cells:
   whatever order the mark took, every other order of the same cells, with the same
   registrations (those of cells that need other cells of the map among them), gives
   the map that the mark left. *)
C22_MarkOrderIndependent ==
    [][(marked' /\ ChainMark)
        => \A order \in Orders(DOMAIN inner) :
              /\ for_each(inner, nodes, order, 1) = inner'
              /\ retain(for_each(inner, nodes, order, 1)) = retain(inner')]_vars

C22_Witness ==
    \E s \in DOMAIN inner, t \in DOMAIN inner :
        /\ s # t /\ marked
        /\ regs[s].made = {"viaLive"} /\ "top" \in regs[t].made
        /\ retain(inner) = {s, t}

(* C23: a sweep with no mark since the sweep before it removes every cell that the
   sweep before it left in the map, those that have had a successful get or a store
   in between included. *)
C23_SweepWithoutMark ==
    [][\A s \in Scopes :
        (late[s] \in {"kept", "keptUsed"} /\ LateSweepOp) => s \notin DOMAIN inner']_vars

C23_Witness ==
    \E s \in Scopes : late[s] = "gone" /\ s \notin DOMAIN inner /\ ~marked

(* C24: when a compose_child returns, the bind_order of the scope it composed lists
   the children that the component bound through child() during that composition, in
   the order of their binding, on the first composition and on every later one. *)
C24_BindOrderIsBound ==
    [][(Len(stack) > 0 /\ Len(stack') < Len(stack))
        => scopes'[stack[Len(stack)].scope].bind_order = stack[Len(stack)].bound]_vars

(* C25: Scope::child is get-or-create. No step takes a child out of a children map or
   puts another scope under an id that has one, so a repeated child(id) on a parent
   returns the scope the first one made; no two scopes other than the root have the
   same parent and id, and every scope is the one its parent holds under its id. *)
C25_ChildGetOrCreate ==
    [][/\ \A p \in DOMAIN scopes : \A id \in DOMAIN scopes[p].children :
            /\ p \in DOMAIN scopes' /\ id \in DOMAIN scopes'[p].children
            /\ scopes'[p].children[id] = scopes[p].children[id]
       /\ \A h \in DOMAIN scopes' \ {RootScope} :
            /\ scopes'[h].id \in DOMAIN scopes'[scopes'[h].parent].children
            /\ scopes'[scopes'[h].parent].children[scopes'[h].id] = h
       /\ \A id \in ScopeIds :
            (Len(stack) > 0 /\ id \in DOMAIN scopes[Caller].children /\ component_child(id))
            => scopes' = scopes]_vars

C25_Witness ==
    /\ ret = RetChild(TRUE)
    /\ \E p \in DOMAIN scopes : DOMAIN scopes[p].children = ScopeIds

(* C26, as stated: from the entry of compose_child_with_witness to its final
   remove_witness the witness is installed in the child scope, the removal finds it,
   and after the call no witness of that type is installed in the child scope. *)
C26_WitnessKept ==
    [][/\ \A i \in DOMAIN stack' :
            stack'[i].witness # NoWitness
            => stack'[i].witness \in scopes'[stack'[i].scope].witnesses
       /\ (Len(stack) > 0 /\ Len(stack') < Len(stack)
           /\ stack[Len(stack)].witness # NoWitness)
            => /\ ~panicked'
               /\ ret' = [op |-> "compose_child_with_witness", some |-> TRUE]
               /\ stack[Len(stack)].witness
                    \notin scopes'[stack[Len(stack)].scope].witnesses]_vars

(* C26, amended: the same, for a composition whose component has not removed a
   witness of that type from its scope itself. *)
C26_WitnessKeptUnlessRemoved ==
    [][/\ \A i \in DOMAIN stack' :
            (stack'[i].witness # NoWitness /\ stack'[i].witness \notin stack'[i].removed)
            => stack'[i].witness \in scopes'[stack'[i].scope].witnesses
       /\ (Len(stack) > 0 /\ Len(stack') < Len(stack)
           /\ stack[Len(stack)].witness # NoWitness
           /\ stack[Len(stack)].witness \notin stack[Len(stack)].removed)
            => /\ ~panicked'
               /\ ret' = [op |-> "compose_child_with_witness", some |-> TRUE]
               /\ stack[Len(stack)].witness
                    \notin scopes'[stack[Len(stack)].scope].witnesses]_vars

C26_Witness ==
    /\ ret = [op |-> "compose_child_with_witness", some |-> TRUE]
    /\ ~panicked /\ Len(stack) = 0
    /\ \E h \in DOMAIN scopes : scopes[h].storage /\ scopes[h].witnesses = {} /\ scopes[h].record
=============================================================================
